---- MODULE Spec2Model ----
(***************************************************************************)
(* The Farcade integration patcher of AESOPNE: two near-duplicate scripts  *)
(* (remixIntegration.js, "A", and the older farcadeIntegration.js, "B")    *)
(* that read index.html, insert the SDK script tag and the glue-code       *)
(* hooks by regular-expression replacement, and write the result.          *)
(*                                                                         *)
(* A document is a sequence of tokens.  A token [t, by] is a piece of text *)
(* t together with its origin: "input" for text of the source file, or the *)
(* name of the rule whose replacement template typed it.  Matching reads   *)
(* the text only.  The token texts:                                        *)
(*   HEAD    </head>                                                       *)
(*   SCRIPT  <script src="https://cdn.jsdelivr.net/...index.min.js">       *)
(*           </script>                                                     *)
(*   TITLE   showTitleScreen() {                                           *)
(*   HIDE    this.gameElements.forEach(element =>                          *)
(*           element.setVisible(false));                                   *)
(*   SP      this.playButton.setPosition(                                  *)
(*   N450    450, 1360                                                     *)
(*   PS      );                                                            *)
(*   SETINT  this.playButton.setInteractive();                             *)
(*   RMLIS   this.playButton.removeAllListeners();                         *)
(*   ONPD    this.playButton.on('pointerdown'                              *)
(*   ARROW   , () => {                                                     *)
(*   START   this.startGame();                                             *)
(*   BRACE   }                                                             *)
(*   GOS     showGameOverScreen() {                                        *)
(*   GAME    const game = new Phaser.Game(config);                         *)
(*   MARK    window.FarcadeSDK.singlePlayer.actions.gameOver               *)
(*   WS      a run of whitespace                                           *)
(*   X       other text: no whitespace, no parenthesis, no brace, no part  *)
(*           of an anchor                                                  *)
(* and, typed by the templates only:                                       *)
(*   READY   // Farcade SDK: Signal ... if (window.FarcadeSDK) {           *)
(*           window.FarcadeSDK.singlePlayer.actions.ready();               *)
(*           console.log('Farcade SDK: Game ready signal sent.');          *)
(*   IFSDK   // Farcade SDK: ... if (window.FarcadeSDK) {                  *)
(*   HIDEBTN this.playButton.setVisible(false); // Hide our button ...     *)
(*   DELAY4000 / DELAY1000   this.time.delayedCall(4000 | 1000, () => {    *)
(*   SCORE   ({ score: this.maxHeight                                      *)
(*   LOG     console.log('Farcade SDK: Game over signal sent ...',         *)
(*           this.maxHeight);                                              *)
(*   PLAY_AGAIN   window.FarcadeSDK.on('play_again', () => { ...           *)
(*   TOGGLE_MUTE  window.FarcadeSDK.on('toggle_mute', (data) => { ...      *)
(*   EVLOG   console.log('Farcade SDK: Event handlers registered.');       *)
(***************************************************************************)
EXTENDS Naturals, Sequences, FiniteSets

VARIABLES script, srcFile, destFile, htmlContent, pc, log

vars == <<script, srcFile, destFile, htmlContent, pc, log>>

\* The number of fragments an input document is assembled from.
MaxFrags == 3

Scripts == {"A", "B"}

Tok(t, by) == [t |-> t, by |-> by]

\* Text of the source file.
In(names) == [i \in 1..Len(names) |-> Tok(names[i], "input")]

\* Text typed by the replacement template of rule `by`.
Ins(names, by) == [i \in 1..Len(names) |-> Tok(names[i], by)]

Min(S) == CHOOSE x \in S : \A y \in S : x <= y

\* ---------------------------------------------------------------- files

NoFile == [exists |-> FALSE, text |-> <<>>]

File(text) == [exists |-> TRUE, text |-> text]

\* What readFile returned: null, or the file's text.
Null == [null |-> TRUE, text |-> <<>>]

Str(text) == [null |-> FALSE, text |-> text]

\* ------------------------------------------------------- input documents

Fragments ==
    { <<"HEAD">>, <<"SCRIPT">>, <<"GAME">>, <<"MARK">>, <<"WS">>, <<"PS">>,
      <<"TITLE", "WS", "HIDE">>,
      <<"SP", "N450", "PS", "SETINT">>,
      <<"SP", "X", "PS", "WS", "SETINT">>,
      <<"SP", "N450", "PS", "X", "SETINT">>,
      <<"RMLIS", "WS", "ONPD", "ARROW", "START", "BRACE", "PS">>,
      <<"RMLIS", "X", "START", "BRACE", "PS">>,
      <<"RMLIS", "X", "START">>,
      <<"GOS", "ONPD", "X", "BRACE", "PS", "WS", "BRACE">> }

RECURSIVE DocsUpTo(_)
DocsUpTo(n) ==
    IF n = 0 THEN {<<>>}
    ELSE LET P == DocsUpTo(n - 1)
         IN  P \cup {d \o f : d \in P, f \in Fragments}

Docs == {In(d) : d \in DocsUpTo(MaxFrags)}

\* ------------------------------------------------------ regular expressions

\* Tokens without the character ")": what [^)]+ can run over.
NoClose == {"HEAD", "SCRIPT", "SP", "N450", "ONPD", "BRACE", "MARK", "WS", "X"}

\* Tokens whose first ")" is followed by ";" and ends the token.
EndsArgs == {"PS", "SETINT", "RMLIS", "START", "GAME"}

NoMatch == [found |-> FALSE, s |-> 0, g |-> 0, e |-> 0]

\* A match of tokens s..e; g is where its first capture group ends.
Match(s, g, e) == [found |-> TRUE, s |-> s, g |-> g, e |-> e]

\* The first index from `from` on that holds token t, or 0.
IndexOf(d, t, from) ==
    LET S == {i \in from..Len(d) : d[i].t = t}
    IN  IF S = {} THEN 0 ELSE Min(S)

\* \s* from `from`: the index of the first token that is not whitespace.
SkipWs(d, from) ==
    LET S == {i \in from..Len(d) : d[i].t # "WS"}
    IN  IF S = {} THEN Len(d) + 1 ELSE Min(S)

IsAt(d, i, t) == i >= 1 /\ i <= Len(d) /\ d[i].t = t

\* [\s\S]*?\}\); from `from`: the index of the first "}" followed by ");", or 0.
IndexOfClose(d, from) ==
    LET S == {i \in from..Len(d) : IsAt(d, i, "BRACE") /\ IsAt(d, i + 1, "PS")}
    IN  IF S = {} THEN 0 ELSE Min(S)

\* The leftmost of the matches Ms (one per start index tried), or NoMatch.
Leftmost(Ms) ==
    LET Ok == {m \in Ms : m.found}
    IN  IF Ok = {} THEN NoMatch ELSE CHOOSE m \in Ok : \A n \in Ok : m.s <= n.s

\* /<\/head>/
headPattern(d) ==
    LET s == IndexOf(d, "HEAD", 1)
    IN  IF s = 0 THEN NoMatch ELSE Match(s, s, s)

\* /(showTitleScreen\(\) \{[\s\S]*?this\.gameElements\.forEach(...);)/
showTitleScreenPattern(d) ==
    LET s == IndexOf(d, "TITLE", 1)
        e == IF s = 0 THEN 0 ELSE IndexOf(d, "HIDE", s + 1)
    IN  IF s = 0 \/ e = 0 THEN NoMatch ELSE Match(s, e, e)

\* A: /(this\.playButton\.setPosition\([^)]+\);\s*this\.playButton\.setInteractive\(\);)/
gameOverScreenPatternAAt(d, s) ==
    LET C == {i \in (s + 1)..Len(d) : d[i].t \notin NoClose}
        k == IF C = {} THEN 0 ELSE Min(C)
        j == SkipWs(d, k + 1)
    IN  IF /\ k # 0
           /\ d[k].t \in EndsArgs
           /\ (k > s + 1 \/ d[k].t # "PS")
           /\ IsAt(d, j, "SETINT")
        THEN Match(s, j, j)
        ELSE NoMatch

gameOverScreenPatternA(d) ==
    Leftmost({gameOverScreenPatternAAt(d, s) : s \in {i \in 1..Len(d) : d[i].t = "SP"}})

\* B: /(this\.playButton\.setPosition\(450, 1360\);[\s\S]*?this\.playButton\.setInteractive\(\);)/
gameOverScreenPatternBAt(d, s) ==
    LET e == IndexOf(d, "SETINT", s + 3)
    IN  IF IsAt(d, s + 1, "N450") /\ IsAt(d, s + 2, "PS") /\ e # 0
        THEN Match(s, e, e)
        ELSE NoMatch

gameOverScreenPatternB(d) ==
    Leftmost({gameOverScreenPatternBAt(d, s) : s \in {i \in 1..Len(d) : d[i].t = "SP"}})

gameOverScreenPattern(sc, d) ==
    IF sc = "A" THEN gameOverScreenPatternA(d) ELSE gameOverScreenPatternB(d)

\* A: /(this\.playButton\.removeAllListeners\(\);\s*this\.playButton\.on\('pointerdown',
\*      \(\) => \{[\s\S]*?this\.startGame\(\);[\s\S]*?\}\);)/
alternativePatternAt(d, s) ==
    LET j == SkipWs(d, s + 1)
        a == IndexOf(d, "START", j + 2)
        b == IF a = 0 THEN 0 ELSE IndexOfClose(d, a + 1)
    IN  IF IsAt(d, j, "ONPD") /\ IsAt(d, j + 1, "ARROW") /\ a # 0 /\ b # 0
        THEN Match(s, b + 1, b + 1)
        ELSE NoMatch

alternativePattern(d) ==
    Leftmost({alternativePatternAt(d, s) : s \in {i \in 1..Len(d) : d[i].t = "RMLIS"}})

\* B: /(this\.playButton\.removeAllListeners\(\);[\s\S]*?this\.startGame\(\);[\s\S]*?\}\);)/
fallbackPattern(d) ==
    LET s == IndexOf(d, "RMLIS", 1)
        a == IF s = 0 THEN 0 ELSE IndexOf(d, "START", s + 1)
        b == IF a = 0 THEN 0 ELSE IndexOfClose(d, a + 1)
    IN  IF b = 0 THEN NoMatch ELSE Match(s, b + 1, b + 1)

firstFallbackPattern(sc, d) ==
    IF sc = "A" THEN alternativePattern(d) ELSE fallbackPattern(d)

\* A: /(showGameOverScreen\(\) \{[\s\S]*?this\.playButton\.on\('pointerdown'[\s\S]*?\}\);)(\s*\})/
endOfMethodPattern(d) ==
    LET s == IndexOf(d, "GOS", 1)
        o == IF s = 0 THEN 0 ELSE IndexOf(d, "ONPD", s + 1)
        B == IF o = 0 THEN {}
             ELSE {b \in (o + 1)..Len(d) :
                     /\ IsAt(d, b, "BRACE") /\ IsAt(d, b + 1, "PS")
                     /\ IsAt(d, SkipWs(d, b + 2), "BRACE")}
    IN  IF B = {} THEN NoMatch
        ELSE Match(s, Min(B) + 1, SkipWs(d, Min(B) + 2))

\* /(const game = new Phaser\.Game\(config\);)/
phaserGameInstancePattern(d) ==
    LET s == IndexOf(d, "GAME", 1)
    IN  IF s = 0 THEN NoMatch ELSE Match(s, s, s)

\* String.prototype.replace with a pattern that is not global: the first match
\* is replaced by repl, or the string is returned as it is.
Replace(d, m, repl) ==
    IF m.found
    THEN SubSeq(d, 1, m.s - 1) \o repl \o SubSeq(d, m.e + 1, Len(d))
    ELSE d

\* ${match}
Matched(d, m) == SubSeq(d, m.s, m.e)

\* html.includes('window.FarcadeSDK.singlePlayer.actions.gameOver')
includesGameOver(d) == \E i \in 1..Len(d) : d[i].t = "MARK"

\* ---------------------------------------------------------------- templates

\* farcadeScriptTag, and the newline the replacement puts after it.
farcadeScriptTag == Ins(<<"WS", "SCRIPT", "WS">>, "sdk")

\* Rule 1's text after ${match}.
readyHook == Ins(<<"WS", "READY", "WS", "BRACE">>, "ready")

\* The game-over rules: rule 2, rule 3, and (script A only) rule 4.
GameOverRules == {"primary", "fallback", "endOfMethod"}

\* The text a game-over rule of script sc puts after the match.
gameOverHook(sc, rule) ==
    IF sc = "A"
    THEN Ins(<<"WS", "IFSDK", "HIDEBTN", "DELAY4000", "MARK", "SCORE", "BRACE", "PS",
               "LOG", "BRACE", "PS", "WS", "BRACE">>, rule)
    ELSE IF rule = "primary"
    THEN Ins(<<"WS", "IFSDK", "HIDEBTN", "DELAY1000", "MARK", "SCORE", "BRACE", "PS",
               "LOG", "BRACE", "PS", "WS", "BRACE">>, rule)
    ELSE Ins(<<"WS", "IFSDK", "DELAY1000", "MARK", "SCORE", "BRACE", "PS",
               "LOG", "BRACE", "PS", "WS", "BRACE">>, rule)

\* The text the last rule puts after the match.
eventHandlersHook ==
    Ins(<<"WS", "IFSDK", "PLAY_AGAIN", "BRACE", "PS", "WS", "TOGGLE_MUTE", "BRACE", "PS",
          "WS", "EVLOG", "WS", "BRACE">>, "events")

\* -------------------------------------------------------------- the rules

\* A slip: the tag put after the marker instead of before it.
sdkReplacementAfter(d, m) == <<Tok("HEAD", "input")>> \o farcadeScriptTag

\* `${farcadeScriptTag}\n</head>`: the template retypes the marker it matched.
sdkReplacement(d, m) == farcadeScriptTag \o <<Tok("HEAD", "input")>>

\* A slip: the tag appended to a document that has no marker.
injectFarcadeSDKOrAppend(html) ==
    LET m == headPattern(html)
    IN  IF m.found
        THEN Replace(html, m, farcadeScriptTag \o <<Tok("HEAD", "input")>>)
        ELSE html \o farcadeScriptTag

injectFarcadeSDK(html) ==
    LET m == headPattern(html)
    IN  Replace(html, m, sdkReplacement(html, m))

\* A slip: the hook put before the match instead of after it.
readyReplacementBefore(d, m) == readyHook \o Matched(d, m)

readyReplacement(d, m) == Matched(d, m) \o readyHook

injectReady(d) ==
    LET m == showTitleScreenPattern(d)
    IN  Replace(d, m, readyReplacement(d, m))

injectPrimary(sc, d) ==
    LET m == gameOverScreenPattern(sc, d)
    IN  Replace(d, m, Matched(d, m) \o gameOverHook(sc, "primary"))

\* A slip: the fallbacks run whether or not a hook is already there.
guardAlwaysPasses(d) == TRUE

\* if (!modifiedHtml.includes(...)) around rules 3 and 4
guardPasses(d) == ~includesGameOver(d)

injectFallback(sc, d) ==
    LET m == firstFallbackPattern(sc, d)
    IN  IF guardPasses(d)
        THEN Replace(d, m, Matched(d, m) \o gameOverHook(sc, "fallback"))
        ELSE d

\* A slip: the second capture group left out of the replacement.
endOfMethodReplacementNoBrace(d, m) ==
    SubSeq(d, m.s, m.g) \o gameOverHook("A", "endOfMethod")

\* `${methodBody} ... ${closingBrace}`
endOfMethodReplacement(d, m) ==
    SubSeq(d, m.s, m.g) \o gameOverHook("A", "endOfMethod") \o SubSeq(d, m.g + 1, m.e)

\* Rule 4 exists in script A only.
injectEndOfMethod(sc, d) ==
    LET m == endOfMethodPattern(d)
    IN  IF sc = "A" /\ guardPasses(d)
        THEN Replace(d, m, endOfMethodReplacement(d, m))
        ELSE d

eventsReplacement(d, m) == Matched(d, m) \o eventHandlersHook

injectEventHandlers(d) ==
    LET m == phaserGameInstancePattern(d)
    IN  Replace(d, m, eventsReplacement(d, m))

injectFarcadeGameLogic(sc, html) ==
    injectEventHandlers(
        injectEndOfMethod(sc,
            injectFallback(sc,
                injectPrimary(sc,
                    injectReady(html)))))

\* A slip: the test for a failed read written as htmlContent === ''.
FalsyEmptyOnly(h) == ~h.null /\ Len(h.text) = 0

\* !htmlContent: null and the empty string are both falsy.
Falsy(h) == h.null \/ Len(h.text) = 0

\* ------------------------------------------------------------- the run

Init ==
    /\ script \in Scripts
    /\ srcFile \in {NoFile} \cup {File(d) : d \in Docs}
    /\ destFile = NoFile
    /\ htmlContent = Null
    /\ pc = "start"
    /\ log = <<>>

\* readFile: readFileSync returned the text.
ReadFileOk ==
    /\ pc = "start"
    /\ srcFile.exists
    /\ htmlContent' = Str(srcFile.text)
    /\ pc' = "read"
    /\ UNCHANGED <<script, srcFile, destFile, log>>

\* readFile: readFileSync threw; the error is logged and null returned.
ReadFileError ==
    /\ pc = "start"
    /\ ~srcFile.exists
    /\ htmlContent' = Null
    /\ log' = Append(log, "readError")
    /\ pc' = "read"
    /\ UNCHANGED <<script, srcFile, destFile>>

\* if (!htmlContent) { console.error('... Aborting.'); return; }
Abort ==
    /\ pc = "read"
    /\ Falsy(htmlContent)
    /\ log' = Append(log, "aborting")
    /\ pc' = "aborted"
    /\ UNCHANGED <<script, srcFile, destFile, htmlContent>>

InjectSDK ==
    /\ pc = "read"
    /\ ~Falsy(htmlContent)
    /\ htmlContent' = Str(injectFarcadeSDK(htmlContent.text))
    /\ pc' = "sdk"
    /\ UNCHANGED <<script, srcFile, destFile, log>>

InjectGameLogic ==
    /\ pc = "sdk"
    /\ htmlContent' = Str(injectFarcadeGameLogic(script, htmlContent.text))
    /\ pc' = "logic"
    /\ UNCHANGED <<script, srcFile, destFile, log>>

\* writeFile: writeFileSync wrote the file.
WriteFileOk ==
    /\ pc = "logic"
    /\ destFile' = File(htmlContent.text)
    /\ log' = Append(log, "created")
    /\ pc' = "written"
    /\ UNCHANGED <<script, srcFile, htmlContent>>

\* writeFile: writeFileSync threw; the error is logged and writeFile returns.
WriteFileError ==
    /\ pc = "logic"
    /\ log' = Append(log, "writeError")
    /\ pc' = "written"
    /\ UNCHANGED <<script, srcFile, destFile, htmlContent>>

\* console.log('AESOPNE Farcade integration complete! ...') and the return.
Complete ==
    /\ pc = "written"
    /\ log' = Append(log, "complete")
    /\ pc' = "done"
    /\ UNCHANGED <<script, srcFile, destFile, htmlContent>>

Next ==
    \/ ReadFileOk
    \/ ReadFileError
    \/ Abort
    \/ InjectSDK
    \/ InjectGameLogic
    \/ WriteFileOk
    \/ WriteFileError
    \/ Complete

Spec == Init /\ [][Next]_vars

\* ------------------------------------------------------------ observations

Src == srcFile.text

Out == htmlContent.text

AfterLogic == pc \in {"logic", "written", "done"}

ReadFailed == \E i \in 1..Len(log) : log[i] = "readError"

WriteFailed == \E i \in 1..Len(log) : log[i] = "writeError"

CompleteReported == \E i \in 1..Len(log) : log[i] = "complete"

Has(d, t) == \E i \in 1..Len(d) : d[i].t = t

Count(d, t) == Cardinality({i \in 1..Len(d) : d[i].t = t})

\* The text of d that rule r's template typed.
InsertedBy(d, r) == SelectSeq(d, LAMBDA x : x.by = r)

\* d with everything a template typed deleted.
Strip(d) == SelectSeq(d, LAMBDA x : x.by = "input")

\* The game-over rules that inserted their hook into d.
Fired(d) == {r \in GameOverRules : \E i \in 1..Len(d) : d[i].by = r}

\* Rule r's text is absent from d, or it is the text h as one span.
OneSpan(d, r, h) ==
    LET I == {i \in 1..Len(d) : d[i].by = r}
    IN  \/ I = {}
        \/ /\ InsertedBy(d, r) = h
           /\ \A i \in I : (i - 1) \in I \/ (\A j \in I : j >= i)

\* How many tokens of the source file d[1..i] holds.
InputPos(d, i) == Cardinality({k \in 1..i : d[k].by = "input"})

FirstBy(d, r) == Min({i \in 1..Len(d) : d[i].by = r})

NoGameOverAnchor(sc, d) ==
    /\ ~gameOverScreenPattern(sc, d).found
    /\ ~firstFallbackPattern(sc, d).found
    /\ (sc = "A" => ~endOfMethodPattern(d).found)

\* ------------------------------------------------------------------ claims

\* C1: a run whose write of the destination failed never ends like a run whose
\* write succeeded, with the 'integration complete' report and a normal return.
C1_WriteFailureSurfaced == (pc = "done" /\ WriteFailed) => ~CompleteReported

\* C2: when reading the source fails the run aborts before any rule is applied,
\* and the destination is written only after a successful read.
C2_NoWriteWithoutRead ==
    /\ ReadFailed =>
          /\ pc \in {"read", "aborted"}
          /\ htmlContent = Null
          /\ destFile = NoFile
    /\ destFile.exists => (srcFile.exists /\ ~ReadFailed)

C2_Witness == pc = "aborted" /\ ReadFailed /\ destFile = NoFile

\* C3: only a file I/O failure aborts a run: no content of a source file that
\* was read, the empty document included, makes the run abort without output.
C3_OnlyIOFailuresAbort == pc = "aborted" => ReadFailed

\* C4 (as stated): for an input without </head>, the document written to the
\* destination equals the input.
C4_OutputEqualsInput ==
    (destFile.exists /\ ~headPattern(Src).found) => destFile.text = Src

\* C4 (amended): for an input without </head>, the SDK tag rule returns the
\* document as it is; what is written holds no text of the SDK tag rule and is
\* the result of the behaviour rules on the input itself.
C4_SdkRuleNoOp ==
    ~headPattern(Src).found =>
        /\ pc = "sdk" => Out = Src
        /\ destFile.exists =>
              /\ InsertedBy(destFile.text, "sdk") = <<>>
              /\ destFile.text = injectFarcadeGameLogic(script, Src)

C4_Witness ==
    /\ destFile.exists
    /\ ~headPattern(Src).found
    /\ InsertedBy(destFile.text, "events") = eventHandlersHook

\* C5 (as stated): for an input with exactly one </head>, the output of the SDK
\* tag rule holds the SDK script reference exactly once, immediately before the
\* marker, and is otherwise the input.
C5_ReferenceExactlyOnce ==
    (pc = "sdk" /\ Count(Src, "HEAD") = 1) =>
        LET h == IndexOf(Src, "HEAD", 1)
        IN  /\ Out = SubSeq(Src, 1, h - 1) \o farcadeScriptTag \o SubSeq(Src, h, Len(Src))
            /\ Count(Out, "SCRIPT") = 1

\* C5 (amended): for an input with exactly one </head>, the SDK tag rule inserts
\* the SDK script reference exactly once, immediately before the marker, and the
\* output is otherwise the input: it holds one reference more than the input.
C5_ReferenceInsertedOnce ==
    (pc = "sdk" /\ Count(Src, "HEAD") = 1) =>
        LET h == IndexOf(Src, "HEAD", 1)
        IN  /\ Out = SubSeq(Src, 1, h - 1) \o farcadeScriptTag \o SubSeq(Src, h, Len(Src))
            /\ Count(Out, "SCRIPT") = Count(Src, "SCRIPT") + 1

C5_Witness ==
    /\ pc = "sdk"
    /\ Count(Src, "HEAD") = 1
    /\ Count(Src, "SCRIPT") = 1
    /\ Count(Out, "SCRIPT") = 2

\* C6 (as stated): an input without the primary game-over anchor and with the
\* first fallback anchor gets exactly one game-over hook, and no run inserts the
\* hooks of two game-over rules.
C6_ExactlyOneHook ==
    AfterLogic =>
        /\ Cardinality(Fired(Out)) <= 1
        /\ (/\ ~gameOverScreenPattern(script, Src).found
            /\ firstFallbackPattern(script, Src).found)
              => Cardinality(Fired(Out)) = 1

\* C6 (amended): an input without the primary game-over anchor, with the first
\* fallback anchor and without the guard's marker text gets exactly one game-over
\* hook, the first fallback's; no run inserts the hooks of two game-over rules,
\* and a rule inserts its hook once.
C6_OneHookUnlessMarked ==
    AfterLogic =>
        /\ Cardinality(Fired(Out)) <= 1
        /\ \A r \in Fired(Out) : InsertedBy(Out, r) = gameOverHook(script, r)
        /\ (/\ ~gameOverScreenPattern(script, Src).found
            /\ firstFallbackPattern(script, Src).found
            /\ ~includesGameOver(Src))
              => Fired(Out) = {"fallback"}

C6_Witness ==
    /\ AfterLogic
    /\ ~gameOverScreenPattern(script, Src).found
    /\ firstFallbackPattern(script, Src).found
    /\ ~includesGameOver(Src)
    /\ Fired(Out) = {"fallback"}

\* C7: for an input that matches no game-over anchor the run completes and
\* writes the destination, no game-over hook is inserted, and the event-handler
\* rule is still applied.
C7_NoAnchorStillSucceeds ==
    (/\ pc \in {"done", "aborted"}
     /\ srcFile.exists
     /\ NoGameOverAnchor(script, Src))
       => /\ pc = "done"
          /\ destFile.exists \/ WriteFailed
          /\ Fired(Out) = {}
          /\ phaserGameInstancePattern(Src).found
                => InsertedBy(Out, "events") = eventHandlersHook

\* C8: every rule only inserts: each rule's text is absent or is its template as
\* one span, and deleting the inserted spans from the output gives the input.
C8_InsertOnly ==
    /\ pc \in {"sdk", "logic", "written", "done"} =>
          /\ Strip(Out) = Src
          /\ OneSpan(Out, "sdk", farcadeScriptTag)
          /\ OneSpan(Out, "ready", readyHook)
          /\ OneSpan(Out, "events", eventHandlersHook)
          /\ \A r \in GameOverRules : OneSpan(Out, r, gameOverHook(script, r))
    /\ destFile.exists => Strip(destFile.text) = Src

C8_Witness ==
    /\ destFile.exists
    /\ Fired(destFile.text) = {"endOfMethod"}
    /\ InsertedBy(destFile.text, "sdk") # <<>>
    /\ Strip(destFile.text) = Src

\* C9: for an input with </head>, then a title routine matching the ready
\* anchor, then the engine-construction statement, the output holds in this
\* order the SDK script reference (right before </head>), the ready signal
\* (right after the statement hiding the game elements) and the subscriptions
\* to 'play_again' and 'toggle_mute' (right after the engine construction).
C9_EndToEndOrder ==
    LET h == headPattern(Src)
        t == showTitleScreenPattern(Src)
        g == phaserGameInstancePattern(Src)
    IN  (AfterLogic /\ h.found /\ t.found /\ g.found /\ h.s < t.s /\ t.e < g.s) =>
            LET sdk == FirstBy(Out, "sdk")
                rdy == FirstBy(Out, "ready")
                evt == FirstBy(Out, "events")
            IN  /\ OneSpan(Out, "sdk", farcadeScriptTag)
                /\ OneSpan(Out, "ready", readyHook)
                /\ OneSpan(Out, "events", eventHandlersHook)
                /\ InsertedBy(Out, "sdk") # <<>>
                /\ InsertedBy(Out, "ready") # <<>>
                /\ InsertedBy(Out, "events") # <<>>
                /\ sdk < rdy /\ rdy < evt
                /\ Out[sdk + Len(farcadeScriptTag)] = Tok("HEAD", "input")
                /\ InputPos(Out, sdk + Len(farcadeScriptTag)) = h.s
                /\ Out[rdy - 1] = Tok("HIDE", "input")
                /\ InputPos(Out, rdy - 1) = t.e
                /\ Out[evt - 1] = Tok("GAME", "input")
                /\ InputPos(Out, evt - 1) = g.s
                /\ IndexOf(Out, "PLAY_AGAIN", 1) < IndexOf(Out, "TOGGLE_MUTE", 1)

C9_Witness ==
    /\ pc = "done"
    /\ destFile.exists
    /\ Src = In(<<"HEAD", "TITLE", "WS", "HIDE", "GAME">>)
    /\ destFile.text =
          farcadeScriptTag \o In(<<"HEAD", "TITLE", "WS", "HIDE">>) \o readyHook
             \o In(<<"GAME">>) \o eventHandlersHook

\* C10: whichever game-over rule inserts the hook, the hook hides the native
\* restart control and schedules the delayed call that reports the score, and
\* all game-over rules of one script use the same delay.
C10_HooksEquivalent ==
    AfterLogic =>
        \A r \in Fired(Out) :
            LET h == InsertedBy(Out, r)
            IN  /\ Has(h, "HIDEBTN")
                /\ Has(h, "MARK") /\ Has(h, "SCORE")
                /\ Has(h, "DELAY4000") = Has(gameOverHook(script, "primary"), "DELAY4000")
                /\ Has(h, "DELAY1000") = Has(gameOverHook(script, "primary"), "DELAY1000")

====
